---- MODULE Spec2Model ----
(***************************************************************************)
(* Model of src/ocrmypdf/_concurrent.py: log_listener (the log relay       *)
(* thread) and exec_progress_pool (the control thread), together with the  *)
(* multiprocessing pool and queue they drive.                              *)
(*                                                                         *)
(* Threads of control: the control thread (pc), the listener thread        *)
(* (listener), and max_workers pool workers (workers, the bag of their     *)
(* states: workers are interchangeable).                                   *)
(*                                                                         *)
(* The pool is the standard library's.  ProcessPool.terminate() kills its  *)
(* worker processes; ThreadPool.terminate() cannot kill threads, so a      *)
(* worker thread finishes the task it is running and then exits; close()   *)
(* lets the workers finish every queued task; join() waits until every     *)
(* worker has gone.  log_queue is one FIFO channel.                        *)
(*                                                                         *)
(* A KeyboardInterrupt is delivered while the control thread is blocked in *)
(* results.next().  PYTEST_CURRENT_TEST is read where the code reads it,   *)
(* in the except clause at line 96.  A task may return, raise, or (on an   *)
(* input in hang_inputs) never complete; task_finished may return or       *)
(* raise.  Opening the progress display may raise, and task_initargs may  *)
(* be left at its default None, which makes line 80 raise.  A task logs at *)
(* most one record; handling a record in the listener may raise.  The      *)
(* callers' task_finished updates the progress display by one when it      *)
(* returns (pbar_n).                                                       *)
(***************************************************************************)
EXTENDS Integers, Sequences, FiniteSets, Bags, TLC

\* ---- bounds ----
MaxTasks == 2
MaxWorkers == 2
MaxLogs == 2
\* the longest input sequence of the runs checked for termination
LiveTasks == 1

\* ---- values ----
\* an argument left at its default, None (lines 61-62)
NoneArgs == "None"
\* the sentinel put on log_queue (line 106) and tested at line 45
None == [name |-> "None", task |-> 0, seq |-> 0]

VARIABLES
    \* arguments of exec_progress_pool and the environment
    use_threads, max_workers, tqdm_kwargs_ok, task_initializer, task_initargs,
    task_arguments, hang_inputs,
    \* os.environ.get("PYTEST_CURRENT_TEST") as read at line 96 (FALSE until read)
    preserve_children,
    \* control thread
    pc, exc, outcome,
    \* log relay
    listener, log_queue, dispatched,
    \* progress display
    pbar,
    \* pool
    pool, workers, taskq, items, fetched,
    \* result callback, and the count it shows on the progress display
    calls, in_callback, pbar_n,
    \* history of the run
    hist

cfgvars == <<use_threads, max_workers, tqdm_kwargs_ok, task_initializer,
             task_initargs, task_arguments, hang_inputs>>
inputs == <<cfgvars, preserve_children>>
ctlvars == <<pc, exc, outcome>>
logvars == <<listener, log_queue, dispatched>>
poolvars == <<pool, workers, taskq, items, fetched>>
cbvars == <<calls, in_callback, pbar_n>>
vars == <<inputs, ctlvars, logvars, pbar, poolvars, cbvars, hist>>

K == Len(task_arguments)

\* the task function of the scenario: task=square
task(x) == x * x

\* the input sequences tried: the prefixes of 1, 2, 2, 3, 3, .. up to
\* MaxTasks inputs (distinct inputs, and from three on a repeated one)
TaskArguments == {[i \in 1..n |-> (i \div 2) + 1] : n \in 0..MaxTasks}

InitHist ==
    [sentinels |-> 0,           \* number of None put on log_queue
     emitted |-> <<>>,          \* records put on log_queue by workers
     after_sentinel |-> 0,      \* records put after the sentinel
     terminates |-> 0,          \* calls of pool.terminate()
     closes |-> 0,              \* calls of pool.close() that found the pool running
     pool_joined |-> FALSE,     \* pool.join() returned
     join_after_terminate |-> FALSE,
     listener_joined |-> FALSE, \* listener.join() returned
     sentinel_seen |-> FALSE,   \* the listener took None off log_queue
     problems |-> <<>>,         \* records whose handling raised in the listener
     pbar_opens |-> 0,
     pbar_closes |-> 0,
     task_raised |-> {},        \* task positions whose task raised
     callback_raised |-> FALSE,
     interrupted |-> FALSE,
     calls_at_exc |-> -1,       \* Len(calls) when the except clause was entered
     claims |-> [i \in 1..K |-> 0],   \* how many workers claimed input i
     runs |-> [i \in 1..K |-> 0],     \* how many times task ran to its end on input i
     delivered |-> {},          \* positions whose result results.next() returned
     callback_threads |-> {},   \* threads that have run the result callback
     update_threads |-> {}]     \* threads that have updated the progress count

Init ==
    /\ use_threads \in BOOLEAN
    /\ max_workers \in {1, MaxWorkers}
    /\ tqdm_kwargs_ok \in BOOLEAN
    /\ task_initializer \in {NoneArgs, "initializer"}
    /\ task_initargs \in {NoneArgs, <<"arg">>}
    /\ task_arguments \in TaskArguments
    /\ hang_inputs \in {{}, {1}}
    /\ preserve_children = FALSE
    /\ pc = "start"
    /\ exc = "none"
    /\ outcome = "running"
    /\ listener = "created"
    /\ log_queue = <<>>
    /\ dispatched = <<>>
    /\ pbar = "none"
    /\ pool = "none"
    /\ workers = EmptyBag
    /\ taskq = <<>>
    /\ items = <<>>
    /\ fetched = 0
    /\ calls = <<>>
    /\ in_callback = <<>>
    /\ pbar_n = 0
    /\ hist = InitHist

\* ---- the pool (multiprocessing.Pool / multiprocessing.dummy.Pool) ----

\* line 80: initargs=(log_queue, *task_initargs)
InitArgs == <<"log_queue">> \o task_initargs

\* a worker: its state, the input position it works on, and the argument
\* tuples its initializer was called with.  A worker of a pool without an
\* initializer goes straight to serving tasks.
NewWorker ==
    [st |-> IF task_initializer = NoneArgs THEN "idle" ELSE "new",
     task |-> 0, inits |-> <<>>]
Live(w) == w.st \in {"new", "idle", "busy"}
AllGone == \A w \in BagToSet(workers) : ~Live(w)

\* the bag of n copies of x
Copies(x, n) == [y \in {x} |-> n]
\* the workers with one worker in state w moved to state v
Moved(w, v) == (workers (-) SetToBag({w})) (+) SetToBag({v})

Killed(w) == IF Live(w) THEN [w EXCEPT !.st = "killed", !.task = 0] ELSE w
RECURSIVE KillAll(_, _)
KillAll(ws, S) ==
    IF S = {} THEN EmptyBag
    ELSE LET w == CHOOSE x \in S : TRUE
         IN Copies(Killed(w), ws[w]) (+) KillAll(ws, S \ {w})

\* pool.terminate(): worker processes are killed; worker threads are not
TerminatedWorkers ==
    IF use_threads THEN workers ELSE KillAll(workers, BagToSet(workers))

\* variant: every task is built from the first input
ImapTasksFirstOnly(args) == [i \in 1..Len(args) |-> 1]

\* the tasks imap_unordered(task, task_arguments) feeds to the workers,
\* as positions in task_arguments
ImapTasks(args) == [i \in 1..Len(args) |-> i]

\* variant: the loop ends as soon as no completion is waiting
EndOfResultsWhenIdle == items = <<>>

\* results.next() raises StopIteration: every result arrived and was taken
EndOfResults == items = <<>> /\ fetched = K

\* ---- the control thread: exec_progress_pool ----

\* lines 67-74: the queue and the listener thread are created and started
StartListener ==
    /\ pc = "start"
    /\ listener' = "running"
    /\ pc' = "tqdm"
    /\ UNCHANGED <<inputs, exc, outcome, log_queue, dispatched, pbar,
                   poolvars, cbvars, hist>>

\* line 76: with tqdm(...) as pbar, called with the keywords of tqdm_kwargs
OpenProgress ==
    /\ pc = "tqdm"
    /\ IF tqdm_kwargs_ok
       THEN /\ pbar' = "open"
            /\ hist' = [hist EXCEPT !.pbar_opens = @ + 1]
            /\ pc' = "pool"
            /\ UNCHANGED <<exc, outcome>>
       ELSE \* tqdm() raises: the with block is never entered
            /\ exc' = "TypeError"
            /\ outcome' = "raised"
            /\ pc' = "done"
            /\ UNCHANGED <<pbar, hist>>
    /\ UNCHANGED <<inputs, logvars, poolvars, cbvars>>

\* lines 77-81: pool_class(processes, initializer, initargs=(log_queue, *task_initargs))
CreatePool ==
    /\ pc = "pool"
    /\ IF task_initargs = NoneArgs
       THEN \* (log_queue, *None) raises TypeError, outside the try statement
            /\ exc' = "TypeError"
            /\ pc' = "exit"
            /\ UNCHANGED <<pool, workers>>
       ELSE /\ pool' = "RUN"
            /\ workers' = Copies(NewWorker, max_workers)
            /\ pc' = "imap"
            /\ UNCHANGED exc
    /\ UNCHANGED <<inputs, outcome, logvars, pbar, taskq, items, fetched,
                   cbvars, hist>>

\* line 83: results = pool.imap_unordered(task, task_arguments)
ImapUnordered ==
    /\ pc = "imap"
    /\ taskq' = ImapTasks(task_arguments)
    /\ pc' = "next"
    /\ UNCHANGED <<inputs, exc, outcome, logvars, pbar, pool, workers, items,
                   fetched, cbvars, hist>>

\* variant: the callback is handed to the pool's result-handler thread, and
\* the loop goes on to the next completion without waiting for it
ResultsNextAsync ==
    /\ pc = "next"
    /\ items # <<>>
    /\ Head(items).ok
    /\ items' = Tail(items)
    /\ fetched' = fetched + 1
    /\ calls' = Append(calls, Head(items))
    /\ in_callback' = Append(in_callback, "result_handler")
    /\ hist' = [hist EXCEPT !.callback_threads = @ \cup {"result_handler"},
                            !.delivered = @ \cup {Head(items).idx}]
    /\ UNCHANGED <<inputs, ctlvars, logvars, pbar, pool, workers, taskq, pbar_n>>

\* lines 86-87: result = results.next(), then task_finished(result, pbar) is
\* entered; a completion that carries the task's exception is re-raised
ResultsNext ==
    /\ pc = "next"
    /\ items # <<>>
    /\ LET c == Head(items) IN
       /\ items' = Tail(items)
       /\ fetched' = fetched + 1
       /\ IF c.ok
          THEN /\ calls' = Append(calls, c)
               /\ in_callback' = Append(in_callback, "control")
               /\ hist' = [hist EXCEPT !.callback_threads = @ \cup {"control"},
                                       !.delivered = @ \cup {c.idx}]
               /\ pc' = "callback"
               /\ UNCHANGED exc
          ELSE /\ exc' = "TaskError"
               /\ hist' = [hist EXCEPT !.calls_at_exc = Len(calls)]
               /\ pc' = "except"
               /\ UNCHANGED <<calls, in_callback>>
    /\ UNCHANGED <<inputs, outcome, logvars, pbar, pool, workers, taskq, pbar_n>>

\* variant: the callback returns without updating the display
TaskFinishedReturnNoUpdate ==
    /\ pc = "callback"
    /\ in_callback' = SubSeq(in_callback, 1, Len(in_callback) - 1)
    /\ pc' = "next"
    /\ UNCHANGED <<inputs, exc, outcome, logvars, pbar, poolvars, calls, pbar_n,
                   hist>>

\* line 87: task_finished(result, pbar) updates the display by one and
\* returns
TaskFinishedReturn ==
    /\ pc = "callback"
    /\ in_callback' = SubSeq(in_callback, 1, Len(in_callback) - 1)
    /\ pbar_n' = pbar_n + 1
    /\ hist' = [hist EXCEPT !.update_threads = @ \cup {Head(in_callback)}]
    /\ pc' = "next"
    /\ UNCHANGED <<inputs, exc, outcome, logvars, pbar, poolvars, calls>>

\* line 87: task_finished raises an exception, the display not updated
TaskFinishedRaise ==
    /\ pc = "callback"
    /\ in_callback' = SubSeq(in_callback, 1, Len(in_callback) - 1)
    /\ exc' = "CallbackError"
    /\ hist' = [hist EXCEPT !.callback_raised = TRUE, !.calls_at_exc = Len(calls)]
    /\ pc' = "except"
    /\ UNCHANGED <<inputs, outcome, logvars, pbar, poolvars, calls, pbar_n>>

\* lines 88-89: StopIteration ends the loop
StopIteration ==
    /\ pc = "next"
    /\ EndOfResults
    /\ pc' = "finally"
    /\ UNCHANGED <<inputs, exc, outcome, logvars, pbar, poolvars, cbvars, hist>>

\* KeyboardInterrupt arrives while the control thread waits in results.next()
Interrupt ==
    /\ pc = "next"
    /\ exc' = "KeyboardInterrupt"
    /\ hist' = [hist EXCEPT !.interrupted = TRUE, !.calls_at_exc = Len(calls)]
    /\ pc' = "except_interrupt"
    /\ UNCHANGED <<inputs, outcome, logvars, pbar, poolvars, cbvars>>

\* variant: the interrupt is re-raised past the finally clause
ExceptKeyboardInterruptNoFinally ==
    /\ pc = "except_interrupt"
    /\ pool' = "TERMINATE"
    /\ workers' = TerminatedWorkers
    /\ taskq' = <<>>
    /\ hist' = [hist EXCEPT !.terminates = @ + 1]
    /\ pc' = "exit"
    /\ UNCHANGED <<inputs, exc, outcome, logvars, pbar, items, fetched, cbvars>>

\* lines 90-94: except KeyboardInterrupt: pool.terminate(); raise
ExceptKeyboardInterrupt ==
    /\ pc = "except_interrupt"
    /\ pool' = "TERMINATE"
    /\ workers' = TerminatedWorkers
    /\ taskq' = <<>>
    /\ hist' = [hist EXCEPT !.terminates = @ + 1]
    /\ pc' = "finally"
    /\ UNCHANGED <<inputs, exc, outcome, logvars, pbar, items, fetched, cbvars>>

\* variant: the pool is terminated whatever the environment says
ExceptExceptionAlwaysTerminate ==
    /\ pc = "except"
    /\ preserve_children' \in BOOLEAN
    /\ pool' = "TERMINATE"
    /\ workers' = TerminatedWorkers
    /\ taskq' = <<>>
    /\ hist' = [hist EXCEPT !.terminates = @ + 1]
    /\ pc' = "finally"
    /\ UNCHANGED <<cfgvars, exc, outcome, logvars, pbar, items, fetched, cbvars>>

\* lines 95-103: except Exception: terminate unless PYTEST_CURRENT_TEST; raise
ExceptException ==
    /\ pc = "except"
    /\ preserve_children' \in BOOLEAN
    /\ IF ~preserve_children'
       THEN /\ pool' = "TERMINATE"
            /\ workers' = TerminatedWorkers
            /\ taskq' = <<>>
            /\ hist' = [hist EXCEPT !.terminates = @ + 1]
       ELSE UNCHANGED <<pool, workers, taskq, hist>>
    /\ pc' = "finally"
    /\ UNCHANGED <<cfgvars, exc, outcome, logvars, pbar, items, fetched, cbvars>>

\* variant: the sentinel is put on the normal path only
FinallyPutSentinelOnSuccessOnly ==
    /\ pc = "finally"
    /\ IF exc = "none"
       THEN /\ log_queue' = Append(log_queue, None)
            /\ hist' = [hist EXCEPT !.sentinels = @ + 1]
       ELSE UNCHANGED <<log_queue, hist>>
    /\ pc' = "close"
    /\ UNCHANGED <<inputs, exc, outcome, listener, dispatched, pbar, poolvars,
                   cbvars>>

\* line 106: log_queue.put_nowait(None)
FinallyPutSentinel ==
    /\ pc = "finally"
    /\ log_queue' = Append(log_queue, None)
    /\ hist' = [hist EXCEPT !.sentinels = @ + 1]
    /\ pc' = "close"
    /\ UNCHANGED <<inputs, exc, outcome, listener, dispatched, pbar, poolvars,
                   cbvars>>

\* variant: the finally clause terminates the pool instead of closing it
FinallyCloseTerminates ==
    /\ pc = "close"
    /\ pool' = "TERMINATE"
    /\ workers' = TerminatedWorkers
    /\ taskq' = <<>>
    /\ hist' = [hist EXCEPT !.terminates = @ + 1]
    /\ pc' = "join"
    /\ UNCHANGED <<inputs, exc, outcome, logvars, pbar, items, fetched, cbvars>>

\* line 107: pool.close() (no effect on a terminated pool)
FinallyClose ==
    /\ pc = "close"
    /\ IF pool = "RUN"
       THEN /\ pool' = "CLOSE"
            /\ hist' = [hist EXCEPT !.closes = @ + 1]
       ELSE UNCHANGED <<pool, hist>>
    /\ pc' = "join"
    /\ UNCHANGED <<inputs, exc, outcome, logvars, pbar, workers, taskq, items,
                   fetched, cbvars>>

\* variant: pool.join() returns at once
FinallyJoinNoWait ==
    /\ pc = "join"
    /\ hist' = [hist EXCEPT !.pool_joined = TRUE,
                            !.join_after_terminate = (pool = "TERMINATE")]
    /\ pc' = "exit"
    /\ UNCHANGED <<inputs, exc, outcome, logvars, pbar, poolvars, cbvars>>

\* line 108: pool.join() returns once every worker has gone
FinallyJoin ==
    /\ pc = "join"
    /\ AllGone
    /\ hist' = [hist EXCEPT !.pool_joined = TRUE,
                            !.join_after_terminate = (pool = "TERMINATE")]
    /\ pc' = "exit"
    /\ UNCHANGED <<inputs, exc, outcome, logvars, pbar, poolvars, cbvars>>

\* variant: the display is closed on the normal path only
ProgressExitOnSuccessOnly ==
    /\ pc = "exit"
    /\ IF exc = "none"
       THEN /\ pbar' = "closed"
            /\ hist' = [hist EXCEPT !.pbar_closes = @ + 1]
            /\ pc' = "listener_join"
            /\ UNCHANGED outcome
       ELSE /\ pc' = "done"
            /\ outcome' = "raised"
            /\ UNCHANGED <<pbar, hist>>
    /\ UNCHANGED <<inputs, exc, logvars, poolvars, cbvars>>

\* line 76: the with statement is left: tqdm.__exit__ closes the display, and
\* a pending exception propagates to the caller
ProgressExit ==
    /\ pc = "exit"
    /\ pbar' = "closed"
    /\ hist' = [hist EXCEPT !.pbar_closes = @ + 1]
    /\ IF exc = "none"
       THEN /\ pc' = "listener_join"
            /\ UNCHANGED outcome
       ELSE /\ pc' = "done"
            /\ outcome' = "raised"
    /\ UNCHANGED <<inputs, exc, logvars, poolvars, cbvars>>

\* variant: the function returns without waiting for the listener thread
ListenerJoinNoWait ==
    /\ pc = "listener_join"
    /\ hist' = [hist EXCEPT !.listener_joined = TRUE]
    /\ outcome' = "returned"
    /\ pc' = "done"
    /\ UNCHANGED <<inputs, exc, logvars, pbar, poolvars, cbvars>>

\* line 110: listener.join(), then the function returns
ListenerJoin ==
    /\ pc = "listener_join"
    /\ listener = "exited"
    /\ hist' = [hist EXCEPT !.listener_joined = TRUE]
    /\ outcome' = "returned"
    /\ pc' = "done"
    /\ UNCHANGED <<inputs, exc, logvars, pbar, poolvars, cbvars>>

\* ---- the pool workers ----

Loggers == <<"ocrmypdf", "tesseract">>
\* the Log Record a task running on input position i emits
Record(i, n) ==
    [name |-> Loggers[(task_arguments[i] % 2) + 1], task |-> i, seq |-> n]

\* the completion a worker sends back for input position i
Completion(i, ok) ==
    [idx |-> i, ok |-> ok, value |-> IF ok THEN task(task_arguments[i]) ELSE 0]

\* variant: the initializer is called with task_initargs alone
WorkerInitNoQueue ==
    \E w \in BagToSet(workers) :
        /\ w.st = "new"
        /\ workers' = Moved(w, [w EXCEPT !.st = "idle",
                                         !.inits = Append(@, task_initargs)])
        /\ UNCHANGED <<inputs, ctlvars, logvars, pbar, pool, taskq, items, fetched,
                       cbvars, hist>>

\* a new worker runs initializer(log_queue, *task_initargs) and starts
\* serving
WorkerInit ==
    \E w \in BagToSet(workers) :
        /\ w.st = "new"
        /\ workers' = Moved(w, [w EXCEPT !.st = "idle",
                                         !.inits = Append(@, InitArgs)])
        /\ UNCHANGED <<inputs, ctlvars, logvars, pbar, pool, taskq, items, fetched,
                       cbvars, hist>>

\* variant: the task is read but left on the queue the first time
WorkerGetPeek ==
    \E w \in BagToSet(workers) :
        /\ w.st = "idle"
        /\ taskq # <<>>
        /\ workers' = Moved(w, [w EXCEPT !.st = "busy", !.task = Head(taskq)])
        /\ taskq' = IF hist.claims[Head(taskq)] = 0 THEN taskq ELSE Tail(taskq)
        /\ hist' = [hist EXCEPT !.claims[Head(taskq)] = @ + 1]
        /\ UNCHANGED <<inputs, ctlvars, logvars, pbar, pool, items, fetched, cbvars>>

\* an idle worker takes the next task off the pool's task queue
WorkerGet ==
    \E w \in BagToSet(workers) :
        /\ w.st = "idle"
        /\ taskq # <<>>
        /\ workers' = Moved(w, [w EXCEPT !.st = "busy", !.task = Head(taskq)])
        /\ taskq' = Tail(taskq)
        /\ hist' = [hist EXCEPT !.claims[Head(taskq)] = @ + 1]
        /\ UNCHANGED <<inputs, ctlvars, logvars, pbar, pool, items, fetched, cbvars>>

EmittedBy(i) == Len(SelectSeq(hist.emitted, LAMBDA r : r.task = i))

\* the log call inside the task puts a record on log_queue (one call in a
\* task, at most MaxLogs records in a run)
WorkerLog ==
    \E w \in BagToSet(workers) :
        /\ w.st = "busy"
        /\ Len(hist.emitted) < MaxLogs
        /\ EmittedBy(w.task) = 0
        /\ LET r == Record(w.task, EmittedBy(w.task) + 1) IN
           /\ log_queue' = Append(log_queue, r)
           /\ hist' = [hist EXCEPT !.emitted = Append(@, r),
                                   !.after_sentinel =
                                       IF hist.sentinels > 0 THEN @ + 1 ELSE @]
        /\ UNCHANGED <<inputs, ctlvars, listener, dispatched, pbar, poolvars, cbvars>>

\* the task returns or raises; the completion goes to the control thread
\* (a terminated pool discards it)
WorkerFinish ==
    \E w \in BagToSet(workers) :
        /\ w.st = "busy"
        /\ task_arguments[w.task] \notin hang_inputs
        /\ \E ok \in BOOLEAN :
             LET i == w.task IN
             /\ items' = IF pool = "TERMINATE" THEN items
                         ELSE Append(items, Completion(i, ok))
             /\ hist' = IF ok THEN [hist EXCEPT !.runs[i] = @ + 1]
                        ELSE [hist EXCEPT !.task_raised = @ \cup {i}]
        /\ workers' = Moved(w, [w EXCEPT !.st = "idle", !.task = 0])
        /\ UNCHANGED <<inputs, ctlvars, logvars, pbar, pool, taskq, fetched, cbvars>>

\* a worker of a closed or terminated pool leaves when no task is left
WorkerExit ==
    \E w \in BagToSet(workers) :
        /\ w.st = "idle"
        /\ taskq = <<>>
        /\ pool \in {"CLOSE", "TERMINATE"}
        /\ workers' = Moved(w, [w EXCEPT !.st = "exited"])
        /\ UNCHANGED <<inputs, ctlvars, logvars, pbar, pool, taskq, items, fetched,
                       cbvars, hist>>

\* ---- the log relay: log_listener ----

\* variant: an exception raised while a record is handled ends the thread
ListenerProblemFatal ==
    /\ listener = "running"
    /\ log_queue # <<>>
    /\ Head(log_queue) # None
    /\ log_queue' = Tail(log_queue)
    /\ listener' = "exited"
    /\ hist' = [hist EXCEPT !.problems = Append(@, Head(log_queue))]
    /\ UNCHANGED <<inputs, ctlvars, dispatched, pbar, poolvars, cbvars>>

\* lines 47-53: getLogger or logger.handle raises on a record; the except
\* clause prints "Logging problem" to sys.stderr and the loop goes on
ListenerProblem ==
    /\ listener = "running"
    /\ log_queue # <<>>
    /\ Head(log_queue) # None
    /\ log_queue' = Tail(log_queue)
    /\ hist' = [hist EXCEPT !.problems = Append(@, Head(log_queue))]
    /\ UNCHANGED <<inputs, ctlvars, listener, dispatched, pbar, poolvars, cbvars>>

\* lines 44-48: one turn of the loop: the sentinel ends it, a record is
\* handed to the logger it names
ListenerGet ==
    /\ listener = "running"
    /\ log_queue # <<>>
    /\ LET record == Head(log_queue) IN
       /\ log_queue' = Tail(log_queue)
       /\ IF record = None
          THEN /\ listener' = "exited"
               /\ hist' = [hist EXCEPT !.sentinel_seen = TRUE]
               /\ UNCHANGED dispatched
          ELSE /\ dispatched' = Append(dispatched,
                                       [logger |-> record.name, record |-> record])
               /\ UNCHANGED <<listener, hist>>
    /\ UNCHANGED <<inputs, ctlvars, pbar, poolvars, cbvars>>

\* ---- the system ----

\* the steps the control thread takes by itself
ControlStep ==
    \/ StartListener
    \/ OpenProgress
    \/ CreatePool
    \/ ImapUnordered
    \/ ResultsNext
    \/ TaskFinishedReturn
    \/ TaskFinishedRaise
    \/ StopIteration
    \/ ExceptKeyboardInterrupt
    \/ ExceptException
    \/ FinallyPutSentinel
    \/ FinallyClose
    \/ FinallyJoin
    \/ ProgressExit
    \/ ListenerJoin

\* the control thread, and the interrupt the user may send it
Control ==
    \/ ControlStep
    \/ Interrupt

Worker ==
    \/ WorkerInit
    \/ WorkerGet
    \/ WorkerLog
    \/ WorkerFinish
    \/ WorkerExit

Listener ==
    \/ ListenerGet
    \/ ListenerProblem

Next ==
    \/ Control
    \/ Worker
    \/ Listener

Spec == Init /\ [][Next]_vars

\* the same program, on inputs whose tasks all terminate, under a fair
\* scheduler: the control thread, the pool workers and the listener thread
\* each get to run when they can (the interrupt is the user's to send or not)
FairInit ==
    /\ Init
    /\ K <= LiveTasks
    \* every task terminates
    /\ hang_inputs = {}

FairSpec ==
    /\ FairInit
    /\ [][Next]_vars
    /\ WF_vars(ControlStep)
    /\ WF_vars(Worker)
    /\ WF_vars(Listener)

TypeOK ==
    /\ pc \in {"start", "tqdm", "pool", "imap", "next", "callback", "except",
               "except_interrupt", "finally", "close", "join", "exit",
               "listener_join", "done"}
    /\ exc \in {"none", "TypeError", "TaskError", "CallbackError",
                "KeyboardInterrupt"}
    /\ outcome \in {"running", "returned", "raised"}
    /\ listener \in {"created", "running", "exited"}
    /\ pbar \in {"none", "open", "closed"}
    /\ pool \in {"none", "RUN", "CLOSE", "TERMINATE"}
    /\ fetched \in 0..K

\* ---- properties ----

BagOfSeq(s) ==
    [v \in {s[j] : j \in DOMAIN s} |-> Cardinality({j \in DOMAIN s : s[j] = v})]
CallValues == [j \in 1..Len(calls) |-> calls[j].value]
CallsFor(i) == Cardinality({j \in 1..Len(calls) : calls[j].idx = i})
Busy(w) == w.st = "busy"
Stuck(w) == Busy(w) /\ task_arguments[w.task] \in hang_inputs
AfterExcept == pc \in {"finally", "close", "join", "exit", "done"}
Problem(r) == \E k \in 1..Len(hist.problems) : hist.problems[k] = r
DispatchCount(r) ==
    Cardinality({k \in 1..Len(dispatched) :
                    dispatched[k] = [logger |-> r.name, record |-> r]})

\* C1: when the pool was built, no task raised, the callback did not raise and
\* no interrupt arrived, a finished run has called the result callback
\* exactly K times, no call is still running, and the run returned normally.
C1_CallbackPerTask ==
    (/\ pc = "done"
     /\ pool # "none"
     /\ hist.task_raised = {}
     /\ ~hist.callback_raised
     /\ ~hist.interrupted)
    => (outcome = "returned" /\ Len(calls) = K /\ in_callback = <<>>)

C1_Witness ==
    /\ pc = "done"
    /\ outcome = "returned"
    /\ K >= 2
    /\ Len(calls) = K

\* C2: on a run that returned normally the multiset of the results given to
\* the callback is the multiset of task(x) over the inputs, for thread and
\* process pools, with or without an initializer, in any completion order.
C2_ResultMultiset ==
    (pc = "done" /\ outcome = "returned")
    => BagOfSeq(CallValues) = BagOfSeq([i \in 1..K |-> task(task_arguments[i])])

C2_Witness ==
    /\ pc = "done"
    /\ outcome = "returned"
    /\ task_initializer = NoneArgs
    /\ ~use_threads
    /\ K >= 2
    /\ calls[1].idx = 2
    /\ task_arguments[1] # task_arguments[2]

\* C3: the result callback runs on the control thread only, and at most one
\* invocation of it is in progress at any time.
C3_CallbackSerial ==
    /\ Len(in_callback) <= 1
    /\ \A j \in 1..Len(in_callback) : in_callback[j] = "control"
    /\ hist.callback_threads \subseteq {"control"}
    /\ (in_callback # <<>> => pc = "callback")

C3_Witness ==
    /\ in_callback = <<"control">>
    /\ items # <<>>
    /\ calls[1].idx = 2
    /\ listener = "running"
    /\ log_queue # <<>>

\* C4: on every path each input is claimed by at most one worker and run at
\* most once; the callback is called exactly once for each input whose result
\* results.next() returned, and never for an input whose task did not
\* complete successfully.
C4_AtMostOnce ==
    /\ \A i \in 1..K :
         /\ hist.claims[i] <= 1
         /\ hist.runs[i] <= 1
         /\ CallsFor(i) = (IF i \in hist.delivered THEN 1 ELSE 0)
         /\ (CallsFor(i) > 0 => hist.runs[i] = 1 /\ i \notin hist.task_raised)
    /\ \A w1, w2 \in BagToSet(workers) :
         (Busy(w1) /\ Busy(w2) /\ w1.task = w2.task) => (w1 = w2 /\ workers[w1] = 1)

C4_Witness ==
    /\ pc = "done"
    /\ exc = "KeyboardInterrupt"
    /\ hist.task_raised # {}
    /\ Len(calls) >= 1

\* C5: after an interrupt at results.next() the pool is terminated, the
\* control thread is never left waiting in pool.join() for a worker whose
\* task never completes, no further result reaches the callback, and the
\* finished run has raised the KeyboardInterrupt.
C5_InterruptTerminates ==
    hist.interrupted =>
        /\ (AfterExcept => hist.terminates = 1 /\ pool = "TERMINATE")
        /\ Len(calls) = hist.calls_at_exc
        /\ (pc = "join" => ~\E w \in BagToSet(workers) : Stuck(w))
        /\ (pc = "done" => outcome = "raised" /\ exc = "KeyboardInterrupt")

\* C6: after a task or callback exception the pool is terminated exactly when
\* preserve-children mode is off; in preserve-children mode it is closed and
\* joined and never terminated; the callback is not called again and the
\* finished run has raised that exception.
C6_ExceptionShutdown ==
    (exc \in {"TaskError", "CallbackError"}) =>
        /\ Len(calls) = hist.calls_at_exc
        /\ in_callback = <<>>
        /\ (AfterExcept =>
              hist.terminates = (IF preserve_children THEN 0 ELSE 1))
        /\ (preserve_children /\ pc \in {"exit", "done"} =>
              pool = "CLOSE" /\ hist.closes = 1 /\ hist.pool_joined /\ AllGone)
        /\ (pc = "done" =>
              /\ outcome = "raised"
              /\ (exc = "CallbackError" <=> hist.callback_raised)
              /\ (exc = "TaskError" => hist.task_raised # {}))

C6_Witness ==
    /\ pc = "done"
    /\ exc = "TaskError"
    /\ preserve_children
    /\ Len(calls) >= 1
    /\ hist.pool_joined
    /\ hist.runs[2] = 1

\* C7 as claimed: on normal completion, interrupt and task or callback
\* exception alike, the listener thread has been joined (it consumed the
\* sentinel and exited) when the run finishes.
C7_JoinedOnEveryExit ==
    (pc = "done" /\ exc \in {"none", "KeyboardInterrupt", "TaskError", "CallbackError"})
    => (hist.listener_joined /\ listener = "exited")

\* C7 as amended: on normal completion the listener thread has been joined,
\* having consumed the sentinel and exited with the queue drained, before the
\* function returns; on interrupt and on a task or callback exception the
\* sentinel has been put but the error propagates without the join.
C7_JoinedOnReturn ==
    pc = "done" =>
        /\ (exc = "none" =>
              /\ hist.listener_joined
              /\ listener = "exited"
              /\ log_queue = <<>>)
        /\ (exc \in {"KeyboardInterrupt", "TaskError", "CallbackError"} =>
              /\ ~hist.listener_joined
              /\ hist.sentinels = 1)

C7_Witness ==
    /\ pc = "done"
    /\ exc = "KeyboardInterrupt"
    /\ listener = "running"
    /\ log_queue # <<>>
    /\ hist.sentinels = 1

\* C8: once the listener thread has been started, a finished run has put
\* exactly one sentinel on log_queue, and never more than one at any time.
C8_OneSentinel ==
    /\ hist.sentinels <= 1
    /\ (pc = "done" /\ listener # "created" => hist.sentinels = 1)

\* C9: the progress display is opened at most once and closed at most once,
\* and a run that opened it has closed it exactly once when it finishes,
\* whether it returns or raises.
C9_ProgressClosedOnce ==
    /\ hist.pbar_opens <= 1
    /\ hist.pbar_closes <= hist.pbar_opens
    /\ (pc = "done" /\ hist.pbar_opens = 1 =>
          hist.pbar_closes = 1 /\ pbar = "closed")
    /\ (pbar = "closed" => pc \in {"listener_join", "done"})

C9_Witness ==
    /\ pc = "done"
    /\ exc = "CallbackError"
    /\ outcome = "raised"
    /\ pbar = "closed"
    /\ hist.pbar_closes = 1

\* C10: no record a worker put on log_queue is dispatched twice, and once
\* the run has finished and the listener has exited every such record (bar
\* those whose handling raised) has been dispatched exactly once, to the
\* logger it names and unchanged.
C10_EveryRecordDispatchedOnce ==
    /\ \A j \in 1..Len(hist.emitted) : DispatchCount(hist.emitted[j]) <= 1
    /\ (pc = "done" /\ listener = "exited" =>
          \A j \in 1..Len(hist.emitted) :
             Problem(hist.emitted[j]) \/ DispatchCount(hist.emitted[j]) = 1)

\* ---- the log relay under errors ----

Queued(r) == Cardinality({k \in 1..Len(log_queue) : log_queue[k] = r})
ProblemCount(r) == Cardinality({k \in 1..Len(hist.problems) : hist.problems[k] = r})
\* the records put on log_queue before the sentinel
BeforeSentinel == SubSeq(hist.emitted, 1, Len(hist.emitted) - hist.after_sentinel)

\* C11: a record whose handling raises does not end the listener: the
\* listener has exited exactly when it took the sentinel; no record is lost
\* (each is waiting on the queue, dispatched once, or reported once); once
\* the listener has exited every record put before the sentinel was handled;
\* and a run with no task, callback or interrupt error returns normally
\* whatever the listener reported.
C11_RelaySurvivesProblem ==
    /\ (listener = "exited" <=> hist.sentinel_seen)
    /\ \A j \in 1..Len(hist.emitted) :
         LET r == hist.emitted[j] IN
         Queued(r) + DispatchCount(r) + ProblemCount(r) = 1
    /\ (listener = "exited" =>
          \A j \in 1..Len(BeforeSentinel) : Queued(BeforeSentinel[j]) = 0)
    /\ (/\ pc = "done"
        /\ pool # "none"
        /\ hist.task_raised = {}
        /\ ~hist.callback_raised
        /\ ~hist.interrupted
        => outcome = "returned" /\ exc = "none")

C11_Witness ==
    /\ pc = "done"
    /\ outcome = "returned"
    /\ listener = "exited"
    /\ Len(hist.emitted) = 2
    /\ hist.problems = <<hist.emitted[1]>>
    /\ Len(dispatched) = 1
    /\ dispatched[1].record = hist.emitted[2]

\* ---- the shutdown coordinator ----

\* where the control thread stands in the try statement of lines 82-108, in
\* the terms of the state machine RUNNING -> DRAINING -> STOPPED /
\* RUNNING -> ABORTING -> STOPPED: NOT_STARTED before the try statement
\* (lines 67-81), RUNNING in its body (lines 83-89), ABORTING from the
\* except clauses to the end of the finally clause when an exception is
\* pending (lines 90-108), DRAINING in the finally clause when none is
\* (lines 104-108), STOPPED once the statement is over
Coordinator ==
    CASE pc \in {"start", "tqdm", "pool"} -> "NOT_STARTED"
      [] pc \in {"imap", "next", "callback"} -> "RUNNING"
      [] pc \in {"except", "except_interrupt"} -> "ABORTING"
      [] pc \in {"finally", "close", "join"} ->
            IF exc = "none" THEN "DRAINING" ELSE "ABORTING"
      [] OTHER -> "STOPPED"

\* C12: the listener thread is running before the pool exists, and
\* listener.join() is called, and returns, only when the pool has been
\* closed and joined with no worker left: never while the coordinator is
\* RUNNING, DRAINING or ABORTING.
C12_ListenerOutlivesPool ==
    /\ (pool # "none" => listener # "created")
    /\ (pc = "listener_join" \/ hist.listener_joined =>
          /\ Coordinator = "STOPPED"
          /\ pool = "CLOSE"
          /\ hist.pool_joined
          /\ AllGone)
    /\ (Coordinator \in {"NOT_STARTED", "RUNNING", "DRAINING", "ABORTING"} =>
          ~hist.listener_joined /\ pc # "listener_join")

C12_Witness ==
    /\ pc = "listener_join"
    /\ listener = "running"
    /\ Len(log_queue) >= 2
    /\ hist.pool_joined
    /\ AllGone
    /\ max_workers = MaxWorkers

\* ---- the progress count ----

\* C13: the progress count goes up by one each time task_finished returns
\* on the control thread and is changed by nothing else: it equals the
\* number of delivered completions whose callback has returned, only the
\* control thread has updated it, it never decreases, it never exceeds K,
\* and it is K when a run without error has finished.
C13_ProgressCount ==
    /\ [](/\ pbar_n = Len(calls) - Len(in_callback)
                       - (IF hist.callback_raised THEN 1 ELSE 0)
          /\ pbar_n <= K
          /\ hist.update_threads \subseteq {"control"}
          /\ (pc = "done" /\ outcome = "returned" => pbar_n = K))
    /\ [][/\ pbar_n' >= pbar_n
          /\ (pbar_n' # pbar_n =>
                /\ pc = "callback" /\ pc' = "next"
                /\ pbar_n' = pbar_n + 1
                /\ pbar = "open"
                /\ UNCHANGED <<workers, items, calls>>)]_vars

C13_Witness ==
    /\ pc = "done"
    /\ outcome = "returned"
    /\ K = 2
    /\ pbar_n = 2
    /\ calls[1].idx = 2
    /\ use_threads

\* ---- the pool at exit ----

\* C14: once the with block has been left, and so when the function returns
\* or raises, a pool that was created has been terminated or closed, and
\* pool.join() has returned: no worker of it is live.
C14_PoolShutDownAtExit ==
    (pc \in {"exit", "listener_join", "done"} /\ pool # "none") =>
        /\ pool \in {"CLOSE", "TERMINATE"}
        /\ (pool = "TERMINATE" <=> hist.terminates = 1)
        /\ (pool = "CLOSE" <=> hist.closes = 1)
        /\ hist.pool_joined
        /\ AllGone

C14_Witness ==
    /\ pc = "done"
    /\ outcome = "raised"
    /\ exc = "KeyboardInterrupt"
    /\ use_threads
    /\ max_workers = MaxWorkers
    /\ K >= 1
    /\ hist.runs[1] = 1
    /\ 1 \notin hist.delivered
    /\ items = <<>>
    /\ AllGone

\* ---- termination ----

\* C15: under fair scheduling, when no task hangs, a run that has built its
\* pool ends (on the normal, the interrupt and the exception path alike) with
\* the function returned or raised and the listener thread exited.
C15_ShutdownCompletes ==
    pc = "imap" ~>
        (pc = "done" /\ outcome \in {"returned", "raised"} /\ listener = "exited")

C15_Witness ==
    /\ pc = "done"
    /\ outcome = "raised"
    /\ exc = "KeyboardInterrupt"
    /\ listener = "exited"
    /\ use_threads
    /\ K = LiveTasks
    /\ hist.runs[K] = 1
    /\ Len(dispatched) = K
    /\ log_queue = <<>>

\* ---- the abort path ----

\* C16: between the entry into ABORTING and STOPPED, once the pool has been
\* terminated the control thread never calls pool.join(), and no pool.join()
\* of a terminated pool has ever returned.
C16_NoJoinAfterTerminate ==
    /\ (Coordinator = "ABORTING" /\ hist.terminates > 0 => pc # "join")
    /\ ~hist.join_after_terminate

\* ---- the normal path ----

\* C17: with no exception pending the pool is never terminated; DRAINING is
\* entered only when all K results have been fetched and given to the
\* callback, which has returned each time; in DRAINING the pool is closed
\* before pool.join() is called, and STOPPED is reached from DRAINING only
\* with the pool closed and joined; and the coordinator moves only from
\* RUNNING to DRAINING or ABORTING and from those to STOPPED.
C17_NormalPathDrains ==
    /\ [](/\ (exc = "none" => hist.terminates = 0 /\ pool # "TERMINATE")
          /\ (Coordinator = "DRAINING" =>
                /\ fetched = K /\ items = <<>> /\ taskq = <<>>
                /\ Len(calls) = K /\ in_callback = <<>>
                /\ \A i \in 1..K : CallsFor(i) = 1
                /\ (pc = "finally" => pool = "RUN" /\ hist.closes = 0)
                /\ (pc = "join" => pool = "CLOSE" /\ hist.closes = 1)
                /\ ~hist.pool_joined)
          /\ (Coordinator = "STOPPED" /\ exc = "none" /\ pool # "none" =>
                pool = "CLOSE" /\ hist.closes = 1 /\ hist.pool_joined /\ AllGone))
    /\ [][Coordinator' # Coordinator =>
            <<Coordinator, Coordinator'>> \in
                {<<"NOT_STARTED", "RUNNING">>, <<"NOT_STARTED", "STOPPED">>,
                 <<"RUNNING", "DRAINING">>, <<"RUNNING", "ABORTING">>,
                 <<"DRAINING", "STOPPED">>, <<"ABORTING", "STOPPED">>}]_vars

C17_Witness ==
    /\ Coordinator = "DRAINING"
    /\ pc = "join"
    /\ pool = "CLOSE"
    /\ ~AllGone
    /\ K = 2
    /\ calls[1].idx = 2
    /\ max_workers = MaxWorkers

\* ---- the sentinel and the records ----

\* C18: no worker puts a record on log_queue after the sentinel was put, so
\* the sentinel is the last message on the queue and, on whatever path the
\* run ended, no record stays undispatched behind it.
C18_SentinelLast ==
    /\ hist.after_sentinel = 0
    /\ (hist.sentinels > 0 /\ log_queue # <<>> =>
          log_queue[Len(log_queue)] = None)
    /\ (listener = "exited" => log_queue = <<>>)

\* ---- the worker initializer ----

Started(w) == w.st \in {"idle", "busy", "exited"}
InitializedOnce(w) == w.inits = <<InitArgs>>

\* C20 as claimed: when an initializer is given, every worker that serves
\* tasks or whose life is over has run it exactly once, called with
\* log_queue followed by task_initargs, and no worker takes a task before.
C20_InitializerOnce ==
    task_initializer # NoneArgs =>
        \A w \in BagToSet(workers) :
            /\ Len(w.inits) <= 1
            /\ (Started(w) \/ ~Live(w) => InitializedOnce(w))

\* C20 as amended: every worker that gets as far as serving tasks has run
\* the initializer exactly once, called with log_queue followed by
\* task_initargs, before it takes its first task; a worker that is starting
\* has not run it yet, and a worker process killed by pool.terminate() has
\* run it once or, if it was killed while starting, not at all.  Without an
\* initializer nothing is run.
C20_InitializerBeforeTasks ==
    \A w \in BagToSet(workers) :
        IF task_initializer = NoneArgs THEN w.inits = <<>>
        ELSE /\ (Started(w) => InitializedOnce(w))
             /\ (w.st = "new" => w.inits = <<>> /\ w.task = 0)
             /\ (w.st = "killed" => w.inits = <<>> \/ InitializedOnce(w))
             /\ (w.st = "killed" => ~use_threads /\ hist.terminates = 1)

C20_Witness ==
    /\ ~use_threads
    /\ task_initializer # NoneArgs
    /\ pc = "done"
    /\ K >= 1
    /\ hist.runs[1] = 1
    /\ \E w \in BagToSet(workers) : w.st = "killed" /\ w.inits = <<>>
    /\ \E w \in BagToSet(workers) : w.st = "killed" /\ InitializedOnce(w)

====
